---- MODULE Spec2Model ----
(***************************************************************************)
(* The bot control and state synchronisation hook `useBot` of the          *)
(* dashboard (src/src/lib/types.ts, lines 101-478), together with the      *)
(* edge functions it invokes (stop-bot, get-bot-status) and the            *)
(* bot_settings table it reads and writes.                                 *)
(*                                                                         *)
(* An async handler is modelled as one action per synchronous stretch:     *)
(* the part up to its `await` (startBot), the collaborator's handling of   *)
(* the request (stopBotServe), and the continuation that runs when the     *)
(* awaited promise settles (startBotResume).                               *)
(***************************************************************************)
EXTENDS Integers, Sequences, FiniteSets, Bags, TLC

VARIABLES
    botStatus,      \* useState<BotStatus>('idle')
    loading,        \* useState(false): the in-flight flag
    inflight,       \* bag of functions.invoke('start-bot' | 'stop-bot') calls not yet resumed
    channel,        \* bot_status broadcasts sent and not yet delivered, oldest first
    statusFetch,    \* number of fetchBotStatus() calls awaiting their reply
    settings,       \* useState<BotSettings | null>(null)
    store,          \* the bot_settings table: its rows, row i has id i
    requests,       \* bag of bot_settings queries (select, insert, update) not yet resumed
    nCalls,         \* number of save and fetchSettings calls made after the mount
    tradeHistory,   \* useState<TradeHistory[]>([])
    stats,          \* useState<BotStats | null>(null)
    feeds,          \* bag of trade_history and bot_stats queries not yet resumed
    tables,         \* the trade_history and bot_stats tables, written by the bot
    events,         \* postgres_changes notifications of trade_history not yet delivered
    subscribed,     \* which of the two channel subscriptions are in place
    forms,          \* the settings state of the useBot() call of each mounted form
    lastStep        \* what the step that led to this state was and what it emitted

cmdVars == <<botStatus, loading, inflight, channel, statusFetch>>

saveVars == <<settings, store, requests, nCalls>>

feedVars == <<tradeHistory, stats, feeds, tables, events, subscribed>>

formVars == <<forms>>

vars == <<botStatus, loading, inflight, channel, statusFetch,
          settings, store, requests, nCalls,
          tradeHistory, stats, feeds, tables, events, subscribed, forms, lastStep>>

----------------------------------------------------------------------------
(* Bounds *)

\* commands awaiting their reply at one time
MaxCmds == 2
\* broadcasts in the channel at one time
MaxChannel == 1
\* status fetches awaiting their reply at one time
MaxFetch == 1
\* calls of the save functions and of fetchSettings made after the mount
MaxCalls == 2
\* rows the bot writes to trade_history
MaxTrades == 1
\* trade_history notifications awaiting delivery at one time
MaxEvents == 1
\* trade_history and bot_stats queries awaiting their resumption at one time
MaxFeeds == 2
\* tokens the bot reports as found in bot_stats
MaxFound == 1

----------------------------------------------------------------------------
(* Types *)

BotStatus == {"idle", "running", "error", "starting", "stopping"}

\* the status values replies and broadcasts are drawn from
StatusSample == {"idle", "running", "error"}

\* `undefined`: a reply body without a status field
Undefined == "undefined"

NoReply == [kind |-> "none", status |-> Undefined]

\* what `await supabase.functions.invoke(fn)` can settle to:
\*   ok    : { data: {status?}, error: null }   (2xx reply)
\*   error : { data: null, error }              (non-2xx reply, or the request failed)
\*   throw : the promise rejects
OkReply(s) == [kind |-> "ok", status |-> s]
ErrorReply == [kind |-> "error", status |-> Undefined]
ThrowReply == [kind |-> "throw", status |-> Undefined]

Cmd(fn, phase, reply) == [fn |-> fn, phase |-> phase, reply |-> reply]

Step(op, reply, toasts, sent) ==
    [op |-> op, reply |-> reply, toasts |-> toasts, sent |-> sent]

\* a step of a save: the request it concerns and what the call returned
\* ("true", "false", or "none" while the call is still awaiting)
SaveStep(op, req, toasts, ret) ==
    [op |-> op, req |-> req, toasts |-> toasts, ret |-> ret]

Outstanding == BagToSet(inflight)

Remove(c) == inflight (-) SetToBag({c})

Add(c) == inflight (+) SetToBag({c})

\* channel.send(): best effort, the event is lost when the channel is full
Broadcast(s) == IF Len(channel) < MaxChannel THEN Append(channel, s) ELSE channel

----------------------------------------------------------------------------
(* Settings: the BotSettings document and the bot_settings table *)

\* Numbers with a fraction are counted in tenths (1000.0 is 10000, 1.0 is 10),
\* max_priority_fee in millionths (0.000005 is 5); integer fields are as written.

\* `null`: no settings loaded. `!settings?.id` is `settings.id = 0`.
Null == [id |-> 0]

defaultBuyConditions ==
    [minimum_liquidity |-> 10000, slippage |-> 10,
     allowed_dexes |-> <<"jupiter", "raydium">>,
     require_verified_contract |-> TRUE, max_priority_fee |-> 5,
     enable_antibot |-> TRUE]

defaultSellConditions ==
    [target_profit |-> 200, stop_loss |-> 100, max_holding_time |-> 60,
     sell_on_volatility_spike |-> FALSE]

defaultRiskControl ==
    [position_size_percentage |-> 50, max_open_trades |-> 3, cooldown_period |-> 30]

GeneralColumns ==
    {"rpc_url", "wallet_address", "telegram_enabled", "telegram_token",
     "telegram_chat_id"}

\* the columns a save function writes
Columns(fn) ==
    CASE fn = "saveBuyConditions"   -> {"buy_conditions"}
      [] fn = "saveSellConditions"  -> {"sell_conditions"}
      [] fn = "saveRiskControl"     -> {"risk_control"}
      [] fn = "saveGeneralSettings" -> GeneralColumns

SaveFns ==
    {"saveBuyConditions", "saveSellConditions", "saveRiskControl", "saveGeneralSettings"}

\* { ...a, ...b }
Spread(a, b) ==
    [k \in DOMAIN a \cup DOMAIN b |-> IF k \in DOMAIN b THEN b[k] ELSE a[k]]

\* a row already in the table when the session starts
ExistingRow ==
    [id |-> 1, created_at |-> 1, updated_at |-> 1,
     rpc_url |-> "https://rpc.example", wallet_address |-> "OLD",
     telegram_enabled |-> TRUE, telegram_token |-> "tok", telegram_chat_id |-> "42",
     buy_conditions |-> [defaultBuyConditions EXCEPT !.minimum_liquidity = 2500,
                                                     !.slippage = 25],
     sell_conditions |-> [defaultSellConditions EXCEPT !.stop_loss = 150],
     risk_control |-> [defaultRiskControl EXCEPT !.cooldown_period = 10]]

\* the patches the save functions are called with
BuyPatches ==
    {[slippage |-> 20], [minimum_liquidity |-> 5000, allowed_dexes |-> <<"orca">>],
     [allowed_dexes |-> <<>>]}

SellPatches == {[target_profit |-> 300]}

RiskPatches == {[max_open_trades |-> 5], [max_open_trades |-> 0]}

GeneralPatches == {[wallet_address |-> "ABC"]}

\* a query sent to the table; `base` is the in-memory settings it was built from
Query(fn, id, patch, payload, base) ==
    [fn |-> fn, id |-> id, patch |-> patch, payload |-> payload, base |-> base,
     phase |-> "sent", error |-> FALSE, data |-> Null]

Request(fn, id, payload) == Query(fn, id, <<>>, payload, Null)

\* the query with the table's answer: { data, error }
Answered(q, error, data) == [q EXCEPT !.phase = "replied", !.error = error, !.data = data]

Pending == BagToSet(requests)

\* `null`: no stats loaded
NoStats == [id |-> 0]

\* a query of trade_history or bot_stats; data holds the rows returned
Feed(fn) == [fn |-> fn, phase |-> "sent", error |-> FALSE, data |-> <<>>]

Feeds == BagToSet(feeds)

\* the hook's state after the first render and its mount effect, which has
\* called the four fetch functions and subscribed to the two channels
Mounted ==
    /\ botStatus = "idle"
    /\ loading = FALSE
    /\ inflight = EmptyBag
    /\ channel = <<>>
    /\ statusFetch = 1
    /\ settings = Null
    /\ requests = SetToBag({Request("fetchSettings", 0, <<>>)})
    /\ nCalls = 0
    /\ tradeHistory = <<>>
    /\ stats = NoStats
    /\ feeds = SetToBag({Feed("fetchTradeHistory"), Feed("fetchStats")})
    /\ events = 0
    /\ subscribed = [bot_status |-> TRUE, trades |-> TRUE]
    /\ forms = <<>>
    /\ lastStep = Step("mount", NoReply, <<>>, <<>>)

\* the bot's tables with no trade made yet
NoTrades ==
    [trade_history |-> <<>>,
     bot_stats |-> <<[id |-> 1, total_trades |-> 0, tokens_found |-> 0]>>]

Init ==
    /\ Mounted
    /\ store = <<>>
    /\ tables = NoTrades

----------------------------------------------------------------------------
(* Commands: startBot and stopBot *)

\* startBot up to its await: setLoading(true), then functions.invoke('start-bot').
\* The function tests nothing before it sends.
startBot ==
    /\ BagCardinality(inflight) < MaxCmds
    /\ loading' = TRUE
    /\ inflight' = Add(Cmd("start-bot", "sent", NoReply))
    /\ lastStep' = Step("startBot", NoReply, <<>>, <<>>)
    /\ UNCHANGED <<botStatus, channel, statusFetch>>
    /\ UNCHANGED <<saveVars, feedVars, formVars>>

\* stopBot up to its await: setLoading(true), then functions.invoke('stop-bot')
stopBot ==
    /\ BagCardinality(inflight) < MaxCmds
    /\ loading' = TRUE
    /\ inflight' = Add(Cmd("stop-bot", "sent", NoReply))
    /\ lastStep' = Step("stopBot", NoReply, <<>>, <<>>)
    /\ UNCHANGED <<botStatus, channel, statusFetch>>
    /\ UNCHANGED <<saveVars, feedVars, formVars>>

\* the request does not reach the edge function: invoke() returns an error or rejects
invokeFail(c) ==
    /\ c \in Outstanding
    /\ c.phase = "sent"
    /\ \E r \in {ErrorReply, ThrowReply} :
          /\ inflight' = Remove(c) (+) SetToBag({Cmd(c.fn, "replied", r)})
          /\ lastStep' = Step("invoke.fail", r, <<>>, <<>>)
    /\ UNCHANGED <<botStatus, loading, channel, statusFetch>>
    /\ UNCHANGED <<saveVars, feedVars, formVars>>

\* the start-bot edge function: one reply, a status or a failure
startBotServe(c) ==
    /\ c \in Outstanding
    /\ c.fn = "start-bot"
    /\ c.phase = "sent"
    /\ \E r \in {OkReply(s) : s \in StatusSample \cup {Undefined}} \cup {ErrorReply} :
          /\ inflight' = Remove(c) (+) SetToBag({Cmd(c.fn, "replied", r)})
          /\ lastStep' = Step("start-bot.serve", r, <<>>, <<>>)
    /\ UNCHANGED <<botStatus, loading, channel, statusFetch>>
    /\ UNCHANGED <<saveVars, feedVars, formVars>>

\* a step of the stop-bot function: `bot` holds the outcome of each request it
\* made to the bot's /stop endpoint
BotStep(op, reply, sent, bot) ==
    [op |-> op, reply |-> reply, toasts |-> <<>>, sent |-> sent, bot |-> bot]

\* the environments the stop-bot function runs in
StopBotEnvs == {"simulated", "bot", "refused", "throws"}

\* mutant: the function replies without broadcasting when the bot has answered
stopBotHandlerSilent(env, status) ==
    CASE env = "simulated" ->
            [sent |-> <<"idle">>, reply |-> OkReply("idle"), bot |-> <<>>]
      [] env = "bot" ->
            [sent |-> <<>>, reply |-> OkReply(status), bot |-> <<"ok">>]
      [] env = "refused" ->
            [sent |-> <<>>, reply |-> OkReply(status), bot |-> <<"failed">>]
      [] env = "throws" ->
            [sent |-> <<>>, reply |-> ErrorReply, bot |-> <<"failed">>]

\* what the stop-bot edge function does in environment env:
\*   "simulated" : BOT_API_URL is unset: broadcast idle, reply 200 {status: "idle"}
\*   "bot"       : fetch(BOT_API_URL/stop) resolves with a 2xx reply and a JSON body
\*                 whose status is `status`: broadcast idle, reply 200 with that body
\*   "refused"   : fetch resolves with a non-2xx reply and a JSON body; response.ok
\*                 is not tested: broadcast idle, reply 200 with that body
\*   "throws"    : fetch or response.json() rejects: reply 400, nothing broadcast
stopBotHandler(env, status) ==
    CASE env = "simulated" ->
            [sent |-> <<"idle">>, reply |-> OkReply("idle"), bot |-> <<>>]
      [] env = "bot" ->
            [sent |-> <<"idle">>, reply |-> OkReply(status), bot |-> <<"ok">>]
      [] env = "refused" ->
            [sent |-> <<"idle">>, reply |-> OkReply(status), bot |-> <<"failed">>]
      [] env = "throws" ->
            [sent |-> <<>>, reply |-> ErrorReply, bot |-> <<"failed">>]

stopBotServe(c) ==
    /\ c \in Outstanding
    /\ c.fn = "stop-bot"
    /\ c.phase = "sent"
    /\ \E env \in StopBotEnvs, s \in StatusSample \cup {Undefined} :
          LET h == stopBotHandler(env, s) IN
          /\ channel' = IF h.sent = <<>> THEN channel ELSE Broadcast(h.sent[1])
          /\ inflight' = Remove(c) (+) SetToBag({Cmd(c.fn, "replied", h.reply)})
          /\ lastStep' = BotStep("stop-bot.serve", h.reply, h.sent, h.bot)
    /\ UNCHANGED <<botStatus, loading, statusFetch>>
    /\ UNCHANGED <<saveVars, feedVars, formVars>>

\* mutant: the catch leaves the status alone, as stopBot's catch does
startBotThenKeepsStatus(reply, status) ==
    IF reply.kind = "ok"
    THEN [botStatus |-> "running", toasts |-> <<"Bot started">>, loading |-> FALSE]
    ELSE [botStatus |-> status, toasts |-> <<"Failed to start bot">>, loading |-> FALSE]

\* mutant: setBotStatus(data.status) in place of setBotStatus('running')
startBotThenAdopts(reply, status) ==
    IF reply.kind = "ok"
    THEN [botStatus |-> IF reply.status = Undefined THEN "running" ELSE reply.status,
          toasts |-> <<"Bot started">>, loading |-> FALSE]
    ELSE [botStatus |-> "error", toasts |-> <<"Failed to start bot">>, loading |-> FALSE]

\* startBot after its await: try / catch / finally
startBotThen(reply, status) ==
    IF reply.kind = "ok"
    THEN [botStatus |-> "running", toasts |-> <<"Bot started">>, loading |-> FALSE]
    ELSE [botStatus |-> "error", toasts |-> <<"Failed to start bot">>, loading |-> FALSE]

startBotResume(c) ==
    /\ c \in Outstanding
    /\ c.fn = "start-bot"
    /\ c.phase = "replied"
    /\ LET t == startBotThen(c.reply, botStatus) IN
          /\ botStatus' = t.botStatus
          /\ loading' = t.loading
          /\ lastStep' = Step("startBot.resume", c.reply, t.toasts, <<>>)
    /\ inflight' = Remove(c)
    /\ UNCHANGED <<channel, statusFetch>>
    /\ UNCHANGED <<saveVars, feedVars, formVars>>

\* mutant: setLoading(false) at the end of the try block, not in a finally
stopBotThenNoFinally(reply, status) ==
    IF reply.kind = "ok"
    THEN [botStatus |-> "idle", toasts |-> <<"Bot stopped">>, loading |-> FALSE]
    ELSE [botStatus |-> status, toasts |-> <<"Failed to stop bot">>, loading |-> TRUE]

\* mutant: the success toast is raised twice
stopBotThenTwoToasts(reply, status) ==
    IF reply.kind = "ok"
    THEN [botStatus |-> "idle", toasts |-> <<"Bot stopped", "Bot stopped">>,
          loading |-> FALSE]
    ELSE [botStatus |-> status, toasts |-> <<"Failed to stop bot">>, loading |-> FALSE]

\* stopBot after its await: try / catch / finally
stopBotThen(reply, status) ==
    IF reply.kind = "ok"
    THEN [botStatus |-> "idle", toasts |-> <<"Bot stopped">>, loading |-> FALSE]
    ELSE [botStatus |-> status, toasts |-> <<"Failed to stop bot">>, loading |-> FALSE]

stopBotResume(c) ==
    /\ c \in Outstanding
    /\ c.fn = "stop-bot"
    /\ c.phase = "replied"
    /\ LET t == stopBotThen(c.reply, botStatus) IN
          /\ botStatus' = t.botStatus
          /\ loading' = t.loading
          /\ lastStep' = Step("stopBot.resume", c.reply, t.toasts, <<>>)
    /\ inflight' = Remove(c)
    /\ UNCHANGED <<channel, statusFetch>>
    /\ UNCHANGED <<saveVars, feedVars, formVars>>

----------------------------------------------------------------------------
(* The bot_status broadcast channel *)

\* some other sender (the external bot, another function) broadcasts a status
externalBroadcast(s) ==
    /\ Len(channel) < MaxChannel
    /\ channel' = Append(channel, s)
    /\ lastStep' = Step("broadcast", NoReply, <<>>, <<s>>)
    /\ UNCHANGED <<botStatus, loading, inflight, statusFetch>>
    /\ UNCHANGED <<saveVars, feedVars, formVars>>

\* the subscription's callback: setBotStatus(payload.payload.status)
onBotStatus ==
    /\ subscribed.bot_status
    /\ channel # <<>>
    /\ botStatus' = Head(channel)
    /\ channel' = Tail(channel)
    /\ lastStep' = Step("bot_status", OkReply(Head(channel)), <<>>, <<>>)
    /\ UNCHANGED <<loading, inflight, statusFetch>>
    /\ UNCHANGED <<saveVars, feedVars, formVars>>

\* delivery is best effort: an event may never arrive
dropBroadcast ==
    /\ channel # <<>>
    /\ channel' = Tail(channel)
    /\ lastStep' = Step("broadcast.drop", NoReply, <<>>, <<>>)
    /\ UNCHANGED <<botStatus, loading, inflight, statusFetch>>
    /\ UNCHANGED <<saveVars, feedVars, formVars>>

----------------------------------------------------------------------------
(* fetchBotStatus *)

\* what the get-bot-status edge function replies in environment env, as
\* functions.invoke hands it to the caller: a 2xx body becomes data, a non-2xx
\* reply becomes { data: null, error }
getBotStatusInvoke(env, status) ==
    CASE env = "simulated" -> OkReply("idle")
      [] env = "bot"       -> OkReply(status)
      [] env = "throws"    -> ErrorReply
      [] env = "rejects"   -> ThrowReply

\* fetchBotStatus after its await: setBotStatus(data?.status || 'idle'), and
\* setBotStatus('error') in the catch
fetchBotStatusThen(reply) ==
    IF reply.kind = "throw" THEN "error"
    ELSE IF reply.kind = "ok" /\ reply.status # Undefined THEN reply.status
    ELSE "idle"

fetchBotStatus ==
    /\ statusFetch < MaxFetch
    /\ statusFetch' = statusFetch + 1
    /\ lastStep' = Step("fetchBotStatus", NoReply, <<>>, <<>>)
    /\ UNCHANGED <<botStatus, loading, inflight, channel>>
    /\ UNCHANGED <<saveVars, feedVars, formVars>>

fetchBotStatusResume ==
    /\ statusFetch > 0
    /\ statusFetch' = statusFetch - 1
    /\ \E env \in {"simulated", "bot", "throws", "rejects"},
          s \in StatusSample \cup {Undefined} :
          LET r == getBotStatusInvoke(env, s) IN
          /\ botStatus' = fetchBotStatusThen(r)
          /\ lastStep' = Step("fetchBotStatus.resume", r, <<>>, <<>>)
    /\ UNCHANGED <<loading, inflight, channel>>
    /\ UNCHANGED <<saveVars, feedVars, formVars>>

----------------------------------------------------------------------------
(* fetchSettings and the four save functions *)

SuccessTitle(fn) ==
    CASE fn = "saveBuyConditions"   -> "Buy conditions updated"
      [] fn = "saveSellConditions"  -> "Sell conditions updated"
      [] fn = "saveRiskControl"     -> "Risk control updated"
      [] fn = "saveGeneralSettings" -> "Settings saved"

FailureTitle(fn) ==
    CASE fn = "saveBuyConditions"   -> "Failed to save buy conditions"
      [] fn = "saveSellConditions"  -> "Failed to save sell conditions"
      [] fn = "saveRiskControl"     -> "Failed to save risk control"
      [] fn = "saveGeneralSettings" -> "Failed to save settings"

\* patch[k] || d, for a string field
OrString(patch, k, d) == IF k \in DOMAIN patch /\ patch[k] # "" THEN patch[k] ELSE d

\* patch[k] || false
OrFalse(patch, k) == IF k \in DOMAIN patch THEN patch[k] ELSE FALSE

\* mutant: the update sends the whole in-memory document with the section replaced
updatePayloadWholeDocument(column, cur, patch) ==
    [k \in (DOMAIN cur) \ {"id", "created_at", "updated_at"} |->
        IF k = column THEN Spread(cur[column], patch) ELSE cur[k]]

\* mutant: the update sends the patch as the section (replace, not merge)
updatePayloadReplaces(column, cur, patch) ==
    [k \in {column} |-> patch]

\* mutant: the update sends the three section columns of the in-memory
\* settings, with the patch merged into its own
updatePayloadAllSections(column, cur, patch) ==
    [k \in {"buy_conditions", "sell_conditions", "risk_control"} |->
        IF k = column THEN Spread(cur[column], patch) ELSE cur[k]]

\* mutant: the patch is merged into the section as persisted when the save is
\* called, not into the in-memory section
updatePayloadFromStore(column, cur, patch) ==
    [k \in {column} |-> Spread(store[cur.id][column], patch)]

\* .update({ <column>: { ...settings.<column>, ...patch } })
updatePayload(column, cur, patch) ==
    [k \in {column} |-> Spread(cur[column], patch)]

\* mutant: the insert stores the general fields as given, with no default rpc_url
insertPayloadAsGiven(patch) ==
    [rpc_url |-> OrString(patch, "rpc_url", ""),
     wallet_address |-> OrString(patch, "wallet_address", ""),
     telegram_enabled |-> OrFalse(patch, "telegram_enabled"),
     telegram_token |-> OrString(patch, "telegram_token", ""),
     telegram_chat_id |-> OrString(patch, "telegram_chat_id", ""),
     buy_conditions |-> defaultBuyConditions,
     sell_conditions |-> defaultSellConditions,
     risk_control |-> defaultRiskControl]

\* .insert({ ... }) of saveGeneralSettings when there is no settings id
insertPayload(patch) ==
    [rpc_url |-> OrString(patch, "rpc_url", "https://api.mainnet-beta.solana.com"),
     wallet_address |-> OrString(patch, "wallet_address", ""),
     telegram_enabled |-> OrFalse(patch, "telegram_enabled"),
     telegram_token |-> OrString(patch, "telegram_token", ""),
     telegram_chat_id |-> OrString(patch, "telegram_chat_id", ""),
     buy_conditions |-> defaultBuyConditions,
     sell_conditions |-> defaultSellConditions,
     risk_control |-> defaultRiskControl]

\* mutant: without a settings id the section save creates the document
saveColumnCreates(fn, column, patch) ==
    /\ nCalls < MaxCalls
    /\ nCalls' = nCalls + 1
    /\ LET q == IF settings.id = 0
                THEN Query(fn, 0, patch,
                           [insertPayload(<<>>) EXCEPT
                               ![column] = Spread(@, patch)], settings)
                ELSE Query(fn, settings.id, patch,
                           updatePayload(column, settings, patch), settings) IN
          /\ requests' = requests (+) SetToBag({q})
          /\ lastStep' = SaveStep(fn, q, <<>>, "none")
    /\ UNCHANGED <<settings, store>>
    /\ UNCHANGED <<cmdVars, feedVars, formVars>>

\* saveBuyConditions, saveSellConditions, saveRiskControl up to the await: without
\* a settings id, the 'Error' toast and `return false`; else the update is sent
saveColumn(fn, column, patch) ==
    /\ nCalls < MaxCalls
    /\ nCalls' = nCalls + 1
    /\ IF settings.id = 0
       THEN /\ requests' = requests
            /\ lastStep' = SaveStep(fn, Query(fn, 0, patch, <<>>, settings),
                                    <<"Error">>, "false")
       ELSE LET q == Query(fn, settings.id, patch,
                           updatePayload(column, settings, patch), settings) IN
            /\ requests' = requests (+) SetToBag({q})
            /\ lastStep' = SaveStep(fn, q, <<>>, "none")
    /\ UNCHANGED <<settings, store>>
    /\ UNCHANGED <<cmdVars, feedVars, formVars>>

saveBuyConditions(patch) == saveColumn("saveBuyConditions", "buy_conditions", patch)

saveSellConditions(patch) == saveColumn("saveSellConditions", "sell_conditions", patch)

saveRiskControl(patch) == saveColumn("saveRiskControl", "risk_control", patch)

\* saveGeneralSettings up to the await: an insert with the defaults when there is
\* no settings id, else an update of the fields of the patch
saveGeneralSettings(patch) ==
    /\ nCalls < MaxCalls
    /\ nCalls' = nCalls + 1
    /\ LET q == IF settings.id = 0
                THEN Query("saveGeneralSettings", 0, patch, insertPayload(patch), settings)
                ELSE Query("saveGeneralSettings", settings.id, patch, patch, settings) IN
          /\ requests' = requests (+) SetToBag({q})
          /\ lastStep' = SaveStep("saveGeneralSettings", q, <<>>, "none")
    /\ UNCHANGED <<settings, store>>
    /\ UNCHANGED <<cmdVars, feedVars, formVars>>

\* fetchSettings up to the await: .from('bot_settings').select('*').single()
fetchSettings ==
    /\ nCalls < MaxCalls
    /\ nCalls' = nCalls + 1
    /\ LET q == Request("fetchSettings", 0, <<>>) IN
          /\ requests' = requests (+) SetToBag({q})
          /\ lastStep' = SaveStep("fetchSettings", q, <<>>, "none")
    /\ UNCHANGED <<settings, store>>
    /\ UNCHANGED <<cmdVars, feedVars, formVars>>

Answer(q, a) == (requests (-) SetToBag({q})) (+) SetToBag({a})

\* the table answers select('*').single(): the row when there is exactly one
tableSelect(q) ==
    /\ q \in Pending
    /\ q.phase = "sent"
    /\ q.fn = "fetchSettings"
    /\ LET a == IF Len(store) = 1 THEN Answered(q, FALSE, store[1])
                                  ELSE Answered(q, TRUE, Null) IN
          /\ requests' = Answer(q, a)
          /\ lastStep' = SaveStep("select", a, <<>>, "none")
    /\ UNCHANGED <<settings, store, nCalls>>
    /\ UNCHANGED <<cmdVars, feedVars, formVars>>

\* the table runs insert(payload).select().single(): a new row with the id and
\* the timestamps the table assigns
tableInsert(q) ==
    /\ q \in Pending
    /\ q.phase = "sent"
    /\ q.fn \in SaveFns
    /\ q.id = 0
    /\ LET n == Len(store) + 1
           row == Spread(q.payload, [id |-> n, created_at |-> n, updated_at |-> n])
           a == Answered(q, FALSE, row) IN
          /\ store' = Append(store, row)
          /\ requests' = Answer(q, a)
          /\ lastStep' = SaveStep("insert", a, <<>>, "none")
    /\ UNCHANGED <<settings, nCalls>>
    /\ UNCHANGED <<cmdVars, feedVars, formVars>>

\* the table runs update(payload).eq('id', id).select().single(): the columns of
\* the payload are overwritten in the row with that id, the others kept
tableUpdate(q) ==
    /\ q \in Pending
    /\ q.phase = "sent"
    /\ q.fn \in SaveFns
    /\ q.id \in 1..Len(store)
    /\ LET row == Spread(store[q.id], q.payload)
           a == Answered(q, FALSE, row) IN
          /\ store' = [store EXCEPT ![q.id] = row]
          /\ requests' = Answer(q, a)
          /\ lastStep' = SaveStep("update", a, <<>>, "none")
    /\ UNCHANGED <<settings, nCalls>>
    /\ UNCHANGED <<cmdVars, feedVars, formVars>>

\* the query fails (request lost, table error): { data: null, error }, nothing written
tableFail(q) ==
    /\ q \in Pending
    /\ q.phase = "sent"
    /\ LET a == Answered(q, TRUE, Null) IN
          /\ requests' = Answer(q, a)
          /\ lastStep' = SaveStep("query.fail", a, <<>>, "none")
    /\ UNCHANGED <<settings, store, nCalls>>
    /\ UNCHANGED <<cmdVars, feedVars, formVars>>

\* mutant: on success the in-memory settings become the locally computed merge
saveThenLocalMerge(q, cur) ==
    IF q.error
    THEN [settings |-> cur, toasts |-> <<FailureTitle(q.fn)>>, ret |-> "false"]
    ELSE [settings |-> Spread(q.base, q.payload),
          toasts |-> <<SuccessTitle(q.fn)>>, ret |-> "true"]

\* mutant: setSettings(data) runs before the error is tested
saveThenSetsFirst(q, cur) ==
    IF q.error
    THEN [settings |-> q.data, toasts |-> <<FailureTitle(q.fn)>>, ret |-> "false"]
    ELSE [settings |-> q.data, toasts |-> <<SuccessTitle(q.fn)>>, ret |-> "true"]

\* a save function after its await: `if (error) throw error; setSettings(data);`
\* the success toast and `return true`, or the catch: the failure toast and
\* `return false`
saveThen(q, cur) ==
    IF q.error
    THEN [settings |-> cur, toasts |-> <<FailureTitle(q.fn)>>, ret |-> "false"]
    ELSE [settings |-> q.data, toasts |-> <<SuccessTitle(q.fn)>>, ret |-> "true"]

saveResume(q) ==
    /\ q \in Pending
    /\ q.phase = "replied"
    /\ q.fn \in SaveFns
    /\ LET t == saveThen(q, settings) IN
          /\ settings' = t.settings
          /\ lastStep' = SaveStep(q.fn \o ".resume", q, t.toasts, t.ret)
    /\ requests' = requests (-) SetToBag({q})
    /\ UNCHANGED <<store, nCalls>>
    /\ UNCHANGED <<cmdVars, feedVars, formVars>>

\* fetchSettings after its await: `if (error) throw error; setSettings(data);`
\* the catch only logs
fetchSettingsThen(q, cur) == IF q.error THEN cur ELSE q.data

fetchSettingsResume(q) ==
    /\ q \in Pending
    /\ q.phase = "replied"
    /\ q.fn = "fetchSettings"
    /\ settings' = fetchSettingsThen(q, settings)
    /\ lastStep' = SaveStep("fetchSettings.resume", q, <<>>, "none")
    /\ requests' = requests (-) SetToBag({q})
    /\ UNCHANGED <<store, nCalls>>
    /\ UNCHANGED <<cmdVars, feedVars, formVars>>

----------------------------------------------------------------------------
(* fetchTradeHistory, fetchStats and the trade_history subscription *)

Reverse(seq) == [i \in 1..Len(seq) |-> seq[Len(seq) + 1 - i]]

Settle(f, a) == (feeds (-) SetToBag({f})) (+) SetToBag({a})

\* the tables answer: trade_history ordered by created_at descending, and
\* bot_stats .single(): the row when there is exactly one
feedSelect(f) ==
    /\ f \in Feeds
    /\ f.phase = "sent"
    /\ LET a == IF f.fn = "fetchTradeHistory"
                THEN [f EXCEPT !.phase = "replied",
                               !.data = Reverse(tables.trade_history)]
                ELSE IF Len(tables.bot_stats) = 1
                THEN [f EXCEPT !.phase = "replied", !.data = tables.bot_stats]
                ELSE [f EXCEPT !.phase = "replied", !.error = TRUE] IN
          /\ feeds' = Settle(f, a)
          /\ lastStep' = SaveStep("feed.select", a, <<>>, "none")
    /\ UNCHANGED <<tradeHistory, stats, tables, events, subscribed>>
    /\ UNCHANGED <<cmdVars, saveVars, formVars>>

\* the query fails: { data: null, error }
feedFail(f) ==
    /\ f \in Feeds
    /\ f.phase = "sent"
    /\ LET a == [f EXCEPT !.phase = "replied", !.error = TRUE] IN
          /\ feeds' = Settle(f, a)
          /\ lastStep' = SaveStep("feed.fail", a, <<>>, "none")
    /\ UNCHANGED <<tradeHistory, stats, tables, events, subscribed>>
    /\ UNCHANGED <<cmdVars, saveVars, formVars>>

\* mutant: setTradeHistory(data || []) runs before the error is tested
fetchTradeHistoryThenSetsFirst(f, cur) == f.data

\* fetchTradeHistory after its await: `if (error) throw error;
\* setTradeHistory(data || [])`; the catch only logs
fetchTradeHistoryThen(f, cur) == IF f.error THEN cur ELSE f.data

fetchTradeHistoryResume(f) ==
    /\ f \in Feeds
    /\ f.phase = "replied"
    /\ f.fn = "fetchTradeHistory"
    /\ tradeHistory' = fetchTradeHistoryThen(f, tradeHistory)
    /\ feeds' = feeds (-) SetToBag({f})
    /\ lastStep' = SaveStep("fetchTradeHistory.resume", f, <<>>, "none")
    /\ UNCHANGED <<stats, tables, events, subscribed>>
    /\ UNCHANGED <<cmdVars, saveVars, formVars>>

\* fetchStats after its await: `if (error) throw error; setStats(data)`; the
\* catch only logs
fetchStatsThen(f, cur) == IF f.error THEN cur ELSE f.data[1]

fetchStatsResume(f) ==
    /\ f \in Feeds
    /\ f.phase = "replied"
    /\ f.fn = "fetchStats"
    /\ stats' = fetchStatsThen(f, stats)
    /\ feeds' = feeds (-) SetToBag({f})
    /\ lastStep' = SaveStep("fetchStats.resume", f, <<>>, "none")
    /\ UNCHANGED <<tradeHistory, tables, events, subscribed>>
    /\ UNCHANGED <<cmdVars, saveVars, formVars>>

\* the bot records a trade: a row in trade_history, the counters of bot_stats,
\* and a postgres_changes notification (lost when one is already waiting)
tradeInserted ==
    /\ Len(tables.trade_history) < MaxTrades
    /\ LET n == Len(tables.trade_history) + 1 IN
          tables' = [trade_history |-> Append(tables.trade_history, [id |-> n]),
                     bot_stats |-> [i \in 1..Len(tables.bot_stats) |->
                                      [tables.bot_stats[i] EXCEPT !.total_trades = n]]]
    /\ events' = IF events < MaxEvents THEN events + 1 ELSE events
    /\ lastStep' = Step("trade", NoReply, <<>>, <<>>)
    /\ UNCHANGED <<tradeHistory, stats, feeds, subscribed>>
    /\ UNCHANGED <<cmdVars, saveVars, formVars>>

\* mutant: the callback fetches the trade history only
onTradesChangeHistoryOnly ==
    /\ subscribed.trades
    /\ events > 0
    /\ BagCardinality(feeds) + 2 <= MaxFeeds
    /\ events' = events - 1
    /\ feeds' = feeds (+) SetToBag({Feed("fetchTradeHistory")})
    /\ lastStep' = Step("trades_change", NoReply, <<>>, <<>>)
    /\ UNCHANGED <<tradeHistory, stats, tables, subscribed>>
    /\ UNCHANGED <<cmdVars, saveVars, formVars>>

\* the bot rewrites its bot_stats row and no row of trade_history: the hook's
\* postgres_changes subscription names the table trade_history only, so no
\* notification is sent to it
statsRewritten ==
    /\ Len(tables.bot_stats) = 1
    /\ tables.bot_stats[1].tokens_found < MaxFound
    /\ tables' = [tables EXCEPT !.bot_stats[1].tokens_found = @ + 1]
    /\ lastStep' = Step("stats", NoReply, <<>>, <<>>)
    /\ UNCHANGED <<tradeHistory, stats, feeds, events, subscribed>>
    /\ UNCHANGED <<cmdVars, saveVars, formVars>>

\* the trades subscription's callback: fetchTradeHistory(); fetchStats()
onTradesChange ==
    /\ subscribed.trades
    /\ events > 0
    /\ BagCardinality(feeds) + 2 <= MaxFeeds
    /\ events' = events - 1
    /\ feeds' = feeds (+) SetToBag({Feed("fetchTradeHistory")})
                       (+) SetToBag({Feed("fetchStats")})
    /\ lastStep' = Step("trades_change", NoReply, <<>>, <<>>)
    /\ UNCHANGED <<tradeHistory, stats, tables, subscribed>>
    /\ UNCHANGED <<cmdVars, saveVars, formVars>>

\* delivery is best effort: a notification may never arrive
dropEvent ==
    /\ events > 0
    /\ events' = events - 1
    /\ lastStep' = Step("event.drop", NoReply, <<>>, <<>>)
    /\ UNCHANGED <<tradeHistory, stats, feeds, tables, subscribed>>
    /\ UNCHANGED <<cmdVars, saveVars, formVars>>

\* mutant: the cleanup releases the status subscription only
teardownStatusOnly ==
    /\ subscribed' = [subscribed EXCEPT !.bot_status = FALSE]
    /\ lastStep' = Step("teardown", NoReply, <<>>, <<>>)
    /\ UNCHANGED <<tradeHistory, stats, feeds, tables, events>>
    /\ UNCHANGED <<cmdVars, saveVars, formVars>>

\* the mount effect's cleanup: statusSubscription.unsubscribe();
\* tradesSubscription.unsubscribe()
teardown ==
    /\ subscribed' = [bot_status |-> FALSE, trades |-> FALSE]
    /\ lastStep' = Step("teardown", NoReply, <<>>, <<>>)
    /\ UNCHANGED <<tradeHistory, stats, feeds, tables, events>>
    /\ UNCHANGED <<cmdVars, saveVars, formVars>>

----------------------------------------------------------------------------
(* The settings forms: each calls useBot() and so has a hook state of its own *)

Forms == {"GeneralSettingsForm", "BuyConditionsForm", "RiskControlForm"}

\* the save function a form's onSubmit calls
FormFn(form) ==
    CASE form = "GeneralSettingsForm" -> "saveGeneralSettings"
      [] form = "BuyConditionsForm"   -> "saveBuyConditions"
      [] form = "RiskControlForm"     -> "saveRiskControl"

FormPatches(form) ==
    CASE form = "GeneralSettingsForm" -> GeneralPatches
      [] form = "BuyConditionsForm"   -> {[slippage |-> 20]}
      [] form = "RiskControlForm"     -> {[max_open_trades |-> 5]}

\* a query made by the hook state of a form
FormQuery(form, q) == Spread(q, [form |-> form])

\* a form is rendered: its useBot() starts with no settings and its mount
\* effect calls fetchSettings()
formMount(form) ==
    /\ form \notin DOMAIN forms
    /\ forms' = [g \in DOMAIN forms \cup {form} |->
                    IF g = form THEN Null ELSE forms[g]]
    /\ LET q == FormQuery(form, Request("fetchSettings", 0, <<>>)) IN
          /\ requests' = requests (+) SetToBag({q})
          /\ lastStep' = SaveStep("fetchSettings", q, <<>>, "none")
    /\ UNCHANGED <<settings, store, nCalls>>
    /\ UNCHANGED <<cmdVars, feedVars>>

\* a form's onSubmit calls the save function of its own useBot(), which reads
\* the settings of that call: the guard, the insert or the update as in
\* saveColumn and saveGeneralSettings
formSubmit(form, patch) ==
    /\ form \in DOMAIN forms
    /\ nCalls < MaxCalls
    /\ nCalls' = nCalls + 1
    /\ LET fn == FormFn(form)
           cur == forms[form] IN
       IF cur.id = 0 /\ fn # "saveGeneralSettings"
       THEN /\ requests' = requests
            /\ lastStep' = SaveStep(fn, FormQuery(form, Query(fn, 0, patch, <<>>, cur)),
                                    <<"Error">>, "false")
       ELSE LET payload ==
                    IF fn = "saveGeneralSettings"
                    THEN IF cur.id = 0 THEN insertPayload(patch) ELSE patch
                    ELSE updatePayload(CHOOSE k \in Columns(fn) : TRUE, cur, patch)
                q == FormQuery(form, Query(fn, cur.id, patch, payload, cur)) IN
            /\ requests' = requests (+) SetToBag({q})
            /\ lastStep' = SaveStep(fn, q, <<>>, "none")
    /\ UNCHANGED <<settings, store, forms>>
    /\ UNCHANGED <<cmdVars, feedVars>>

\* the continuation of a form's query sets the settings of that form's
\* useBot() only
formThen(q, all) ==
    [all EXCEPT ![q.form] =
        IF q.fn = "fetchSettings" THEN fetchSettingsThen(q, @)
        ELSE saveThen(q, @).settings]

formResume(q) ==
    /\ q \in Pending
    /\ q.phase = "replied"
    /\ "form" \in DOMAIN q
    /\ forms' = formThen(q, forms)
    /\ lastStep' = IF q.fn = "fetchSettings"
                   THEN SaveStep("fetchSettings.resume", q, <<>>, "none")
                   ELSE LET t == saveThen(q, forms[q.form]) IN
                        SaveStep(q.fn \o ".resume", q, t.toasts, t.ret)
    /\ requests' = requests (-) SetToBag({q})
    /\ UNCHANGED <<settings, store, nCalls>>
    /\ UNCHANGED <<cmdVars, feedVars>>

----------------------------------------------------------------------------
(* Specifications *)

Next ==
    \/ startBot
    \/ stopBot
    \/ \E c \in Outstanding : invokeFail(c)
    \/ \E c \in Outstanding : startBotServe(c)
    \/ \E c \in Outstanding : stopBotServe(c)
    \/ \E c \in Outstanding : startBotResume(c)
    \/ \E c \in Outstanding : stopBotResume(c)
    \/ \E s \in StatusSample : externalBroadcast(s)
    \/ onBotStatus
    \/ dropBroadcast
    \/ fetchBotStatus
    \/ fetchBotStatusResume

Spec == Init /\ [][Next]_vars

\* the settings half of the hook, over a table that is empty or holds one row
SaveInit ==
    /\ Mounted
    /\ store \in {<<>>, <<ExistingRow>>}
    /\ tables = NoTrades

SaveNext ==
    \/ \E p \in BuyPatches : saveBuyConditions(p)
    \/ \E p \in SellPatches : saveSellConditions(p)
    \/ \E p \in RiskPatches : saveRiskControl(p)
    \/ \E p \in GeneralPatches : saveGeneralSettings(p)
    \/ fetchSettings
    \/ \E q \in Pending : tableSelect(q)
    \/ \E q \in Pending : tableInsert(q)
    \/ \E q \in Pending : tableUpdate(q)
    \/ \E q \in Pending : tableFail(q)
    \/ \E q \in Pending : saveResume(q)
    \/ \E q \in Pending : fetchSettingsResume(q)

SaveSpec == SaveInit /\ [][SaveNext]_vars

\* the bot's tables without a bot_stats row
NoStatsRow == [trade_history |-> <<[id |-> 1]>>, bot_stats |-> <<>>]

\* the mount's four fetches, and the re-fetches the trades subscription makes
MountInit ==
    /\ Mounted
    /\ store \in {<<>>, <<ExistingRow>>}
    /\ tables \in {NoTrades, NoStatsRow}

MountNext ==
    \/ fetchBotStatusResume
    \/ \E q \in Pending : tableSelect(q)
    \/ \E q \in Pending : tableFail(q)
    \/ \E q \in Pending : fetchSettingsResume(q)
    \/ \E f \in Feeds : feedSelect(f)
    \/ \E f \in Feeds : feedFail(f)
    \/ \E f \in Feeds : fetchTradeHistoryResume(f)
    \/ \E f \in Feeds : fetchStatsResume(f)
    \/ tradeInserted
    \/ onTradesChange
    \/ dropEvent

MountSpec == MountInit /\ [][MountNext]_vars

\* the two subscriptions and the mount effect's cleanup
TeardownNext ==
    \/ \E s \in StatusSample : externalBroadcast(s)
    \/ onBotStatus
    \/ dropBroadcast
    \/ tradeInserted
    \/ onTradesChange
    \/ dropEvent
    \/ \E f \in Feeds : feedSelect(f)
    \/ \E f \in Feeds : feedFail(f)
    \/ \E f \in Feeds : fetchTradeHistoryResume(f)
    \/ \E f \in Feeds : fetchStatsResume(f)
    \/ teardown

TeardownSpec == MountInit /\ [][TeardownNext]_vars

\* the event loop runs the continuation of every settled promise
Resume == \E c \in Outstanding : startBotResume(c) \/ stopBotResume(c)

FairSpec == Spec /\ WF_vars(Resume)

----------------------------------------------------------------------------
(* Claims about the commands *)

Starts == {c \in Outstanding : c.fn = "start-bot"}

Count(seq, x) == Cardinality({i \in 1..Len(seq) : seq[i] = x})

Failed(step) == step.reply.kind \in {"error", "throw"}

\* C1: a start() invoked before an earlier start() has resolved sends nothing:
\* at most one 'start-bot' invocation is outstanding at any time
C1_OneStartInvocation ==
    \A c \in Starts : CopiesIn(c, inflight) = 1 /\ Starts = {c}

\* C2: start() and stop() are mutually exclusive: at most one command is
\* outstanding, and loading is true whenever one is
C2_MutualExclusion ==
    /\ BagCardinality(inflight) <= 1
    /\ BagCardinality(inflight) > 0 => loading

\* C3: after start() fails (error result or throw), the status is 'error' and
\* loading is false
C3_StartFailure ==
    (lastStep.op = "startBot.resume" /\ Failed(lastStep))
        => (botStatus = "error" /\ loading = FALSE)

C3_Witness ==
    /\ lastStep.op = "startBot.resume"
    /\ lastStep.reply.kind = "throw"
    /\ botStatus = "error"
    /\ loading = FALSE

\* C4: once the gateway call of a start() or stop() has settled, with a success
\* or with a failure, loading is eventually false
C4_LoadingCleared ==
    (\E c \in Outstanding : c.phase = "replied") ~> (loading = FALSE)

C4_Witness ==
    /\ lastStep.op = "stopBot.resume"
    /\ Failed(lastStep)
    /\ loading = FALSE

\* C5 as stated: when start() succeeds the status becomes the status value of
\* the reply, and a 'Bot started' notification is emitted
C5_AdoptsReturnedStatus ==
    (lastStep.op = "startBot.resume" /\ lastStep.reply.kind = "ok"
        /\ lastStep.reply.status # Undefined)
        => (botStatus = lastStep.reply.status /\ lastStep.toasts = <<"Bot started">>)

\* C5 amended: when start() succeeds the status becomes 'running', whatever
\* status value the reply carries, and one 'Bot started' notification is emitted
C5_StartSuccessIsRunning ==
    (lastStep.op = "startBot.resume" /\ lastStep.reply.kind = "ok")
        => (botStatus = "running" /\ lastStep.toasts = <<"Bot started">>)

C5_Witness ==
    /\ lastStep.op = "startBot.resume"
    /\ lastStep.reply = OkReply("idle")
    /\ botStatus = "running"

\* C6: when stop() fails (error result or throw) the status becomes 'error' and
\* a failure notification is emitted
C6_StopFailureIsError ==
    (lastStep.op = "stopBot.resume" /\ Failed(lastStep))
        => (botStatus = "error" /\ lastStep.toasts = <<"Failed to stop bot">>)

\* C7: when stop() succeeds with returned status 'idle' the status becomes
\* 'idle' and exactly one 'Bot stopped' notification is recorded for that call;
\* no other step records one
C7_StopSuccess ==
    /\ (lastStep.op = "stopBot.resume" /\ lastStep.reply = OkReply("idle"))
          => (botStatus = "idle" /\ Count(lastStep.toasts, "Bot stopped") = 1)
    /\ ~(lastStep.op = "stopBot.resume" /\ lastStep.reply.kind = "ok")
          => Count(lastStep.toasts, "Bot stopped") = 0

C7_Witness ==
    /\ lastStep.op = "stopBot.resume"
    /\ lastStep.reply = OkReply("idle")
    /\ botStatus = "idle"
    /\ lastStep.toasts = <<"Bot stopped">>

\* C8: while a command is in flight the status changes by no step other than
\* the resolution of a command
C8_StatusFrozenInFlight ==
    [][(inflight # EmptyBag /\ botStatus' # botStatus)
          => lastStep'.op \in {"startBot.resume", "stopBot.resume"}]_vars

----------------------------------------------------------------------------
(* Claims about the saves *)

\* the value of field f of the section a save function writes, in a row
Value(row, fn, f) ==
    IF fn = "saveGeneralSettings" THEN row[f]
    ELSE row[CHOOSE k \in Columns(fn) : TRUE][f]

\* the fields of that section the row holds
Fields(row, fn) ==
    IF fn = "saveGeneralSettings" THEN GeneralColumns \cap DOMAIN row
    ELSE DOMAIN row[CHOOSE k \in Columns(fn) : TRUE]

\* the fields of the section that the patch of query q leaves out
Omitted(q, row) == Fields(row, q.fn) \ DOMAIN q.patch

\* C9: a successful save of one section leaves every other column of the
\* persisted document as it was: a column of a row changes only when the table
\* applies an update of the section that column belongs to
C9_OtherSectionsUntouched ==
    [][\A i \in 1..Len(store) : \A k \in DOMAIN store[i] :
          (k \notin DOMAIN store'[i] \/ store'[i][k] # store[i][k])
              => /\ lastStep'.op = "update"
                 /\ lastStep'.req.id = i
                 /\ k \in Columns(lastStep'.req.fn)]_vars

\* a buy save built from settings whose sell section was already stale is
\* applied, and the newer persisted sell section is still in place
C9_Witness ==
    /\ lastStep.op = "update"
    /\ lastStep.req.fn = "saveBuyConditions"
    /\ lastStep.req.base.sell_conditions.target_profit = 200
    /\ store[1].sell_conditions.target_profit = 300
    /\ store[1].buy_conditions.slippage = 20

\* C10 as stated: a save whose patch omits some fields of its section keeps the
\* persisted values of the omitted fields
C10_OmittedFieldsKeepPersisted ==
    [][lastStep'.op = "update" =>
          LET q == lastStep'.req IN
          \A f \in Omitted(q, store[q.id]) :
              /\ f \in Fields(store'[q.id], q.fn)
              /\ Value(store'[q.id], q.fn, f) = Value(store[q.id], q.fn, f)]_vars

\* C10 amended: a save of buy, sell or risk writes, for each field its patch
\* omits, the value the field had in the in-memory settings when the save was
\* called (the persisted value, unless another write to the section was applied
\* since those settings were loaded); a save of general leaves the persisted
\* values of the omitted fields in place
C10_OmittedFieldsKeepSnapshot ==
    [][lastStep'.op = "update" =>
          LET q == lastStep'.req
              old == IF q.fn = "saveGeneralSettings" THEN store[q.id] ELSE q.base IN
          /\ \A f \in Omitted(q, old) :
                /\ f \in Fields(store'[q.id], q.fn)
                /\ Value(store'[q.id], q.fn, f) = Value(old, q.fn, f)
          /\ \A f \in Omitted(q, store[q.id]) :
                (f \in Fields(q.base, q.fn)
                    /\ Value(q.base, q.fn, f) = Value(store[q.id], q.fn, f))
                    => /\ f \in Fields(store'[q.id], q.fn)
                       /\ Value(store'[q.id], q.fn, f) = Value(store[q.id], q.fn, f)]_vars

C10_Witness ==
    /\ lastStep.op = "update"
    /\ lastStep.req.fn = "saveBuyConditions"
    /\ lastStep.req.patch = [slippage |-> 20]
    /\ store[1].buy_conditions.slippage = 20
    /\ store[1].buy_conditions.minimum_liquidity = 2500

\* the save functions that update one section column
ColumnFns == {"saveBuyConditions", "saveSellConditions", "saveRiskControl"}

\* the call that query q records leaves the allowed_dexes list empty
EmptiesDexes(q) ==
    IF "allowed_dexes" \in DOMAIN q.patch THEN q.patch.allowed_dexes = <<>>
    ELSE q.base.id # 0 /\ q.base.buy_conditions.allowed_dexes = <<>>

\* C11: a buy save whose resulting allowed_dexes list is empty is rejected
\* before any persistence call is made: the call reports failure, sends no
\* query, and the in-memory settings are unchanged
C11_EmptyDexesRejected ==
    [][(lastStep'.op = "saveBuyConditions" /\ EmptiesDexes(lastStep'.req))
          => /\ lastStep'.ret = "false"
             /\ requests' = requests
             /\ settings' = settings]_vars

\* C12: every persisted settings document has a non-empty
\* buy_conditions.allowed_dexes list
C12_DexesNeverEmpty ==
    \A i \in 1..Len(store) : store[i].buy_conditions.allowed_dexes # <<>>

\* C13: with no settings id in memory, a save of buy, sell or risk fails: it
\* reports failure, makes no persistence call, and leaves the in-memory
\* settings and the table as they were
C13_NoIdSaveFails ==
    [][(lastStep'.op \in ColumnFns /\ settings.id = 0)
          => /\ lastStep'.ret = "false"
             /\ lastStep'.toasts = <<"Error">>
             /\ requests' = requests
             /\ settings' = settings
             /\ store' = store]_vars

\* a buy save is refused while the table holds a row the hook has not loaded
C13_Witness ==
    /\ lastStep.op = "saveBuyConditions"
    /\ lastStep.ret = "false"
    /\ lastStep.toasts = <<"Error">>
    /\ settings = Null
    /\ store = <<ExistingRow>>

\* the document a first save of section fn with `patch` is to create: the
\* defaults, with the patch merged into its section
Created(fn, patch) ==
    IF fn = "saveGeneralSettings" THEN Spread(insertPayload(<<>>), patch)
    ELSE LET column == CHOOSE k \in Columns(fn) : TRUE IN
         [insertPayload(<<>>) EXCEPT ![column] = Spread(@, patch)]

\* C14: when no settings document exists, the first save of any of the four
\* sections sends the creation of the full document: the patch merged into
\* its section, the defaults in the others
C14_FirstSaveCreates ==
    [][(lastStep'.op \in SaveFns /\ store = <<>>)
          => LET q == lastStep'.req IN
             /\ lastStep'.ret = "none"
             /\ q \in BagToSet(requests')
             /\ q.id = 0
             /\ q.payload = Created(q.fn, q.patch)]_vars

\* C15: when no settings exist, a general save with only a wallet address W
\* persists a document with wallet_address W, the literal defaults in
\* buy_conditions, sell_conditions and risk_control, the default rpc_url and
\* telegram_enabled false
C15_GeneralCreatesDefaults ==
    [][(/\ lastStep'.op = "insert"
        /\ store = <<>>
        /\ lastStep'.req.fn = "saveGeneralSettings"
        /\ DOMAIN lastStep'.req.patch = {"wallet_address"})
          => /\ Len(store') = 1
             /\ store'[1].wallet_address = lastStep'.req.patch.wallet_address
             /\ store'[1].buy_conditions =
                    [minimum_liquidity |-> 10000, slippage |-> 10,
                     allowed_dexes |-> <<"jupiter", "raydium">>,
                     require_verified_contract |-> TRUE, max_priority_fee |-> 5,
                     enable_antibot |-> TRUE]
             /\ store'[1].sell_conditions =
                    [target_profit |-> 200, stop_loss |-> 100,
                     max_holding_time |-> 60, sell_on_volatility_spike |-> FALSE]
             /\ store'[1].risk_control =
                    [position_size_percentage |-> 50, max_open_trades |-> 3,
                     cooldown_period |-> 30]
             /\ store'[1].rpc_url = "https://api.mainnet-beta.solana.com"
             /\ store'[1].telegram_enabled = FALSE]_vars

C15_Witness ==
    /\ lastStep.op = "insert"
    /\ lastStep.req.patch = [wallet_address |-> "ABC"]
    /\ Len(store) = 1
    /\ store[1].wallet_address = "ABC"
    /\ store[1].buy_conditions.allowed_dexes = <<"jupiter", "raydium">>
    /\ store[1].risk_control.cooldown_period = 30

\* the steps in which a save function returns after its await
SaveResumes == {"saveBuyConditions.resume", "saveSellConditions.resume",
                "saveRiskControl.resume", "saveGeneralSettings.resume"}

\* C16: after a successful save the in-memory settings are the document the
\* persistence call returned, with the id and timestamps the table assigned
C16_SettingsArePersistedResult ==
    (lastStep.op \in SaveResumes /\ lastStep.ret = "true")
        => /\ settings = lastStep.req.data
           /\ settings.id \in 1..Len(store)
           /\ {"created_at", "updated_at"} \subseteq DOMAIN settings

\* a buy save returns a document that differs from the merge computed locally
C16_Witness ==
    /\ lastStep.op = "saveBuyConditions.resume"
    /\ lastStep.ret = "true"
    /\ settings = lastStep.req.data
    /\ settings # Spread(lastStep.req.base, lastStep.req.payload)

\* C17: when the persistence call of a save fails, the save returns false and
\* the in-memory settings are what they were
C17_FailedSaveKeepsSettings ==
    [][(lastStep'.op \in SaveResumes /\ lastStep'.req.error)
          => /\ lastStep'.ret = "false"
             /\ lastStep'.toasts = <<FailureTitle(lastStep'.req.fn)>>
             /\ settings' = settings]_vars

C17_Witness ==
    /\ lastStep.op = "saveSellConditions.resume"
    /\ lastStep.req.error
    /\ lastStep.ret = "false"
    /\ settings = ExistingRow

----------------------------------------------------------------------------
(* Claims about the mount, the status fetch and the cleanup *)

\* C18: the four fetches of the mount are isolated: the resumption of each
\* one sets its own part of the view from its own outcome (the fetched value
\* on success; for settings, history and stats the previous value on failure)
\* and touches no other part, whatever the outcome of the others
C18_FetchesIsolated ==
    [][/\ lastStep'.op = "fetchBotStatus.resume"
            => /\ (lastStep'.reply.kind = "ok" /\ lastStep'.reply.status # Undefined)
                     => botStatus' = lastStep'.reply.status
               /\ UNCHANGED <<settings, tradeHistory, stats>>
       /\ lastStep'.op = "fetchSettings.resume"
            => /\ settings' = IF lastStep'.req.error THEN settings
                                                     ELSE lastStep'.req.data
               /\ UNCHANGED <<botStatus, tradeHistory, stats>>
       /\ lastStep'.op = "fetchTradeHistory.resume"
            => /\ tradeHistory' = IF lastStep'.req.error THEN tradeHistory
                                                         ELSE lastStep'.req.data
               /\ UNCHANGED <<botStatus, settings, stats>>
       /\ lastStep'.op = "fetchStats.resume"
            => /\ stats' = IF lastStep'.req.error THEN stats
                                                  ELSE lastStep'.req.data[1]
               /\ UNCHANGED <<botStatus, settings, tradeHistory>>]_vars

\* the history has loaded although the three other fetches of the mount failed
C18_Witness ==
    /\ lastStep.op = "fetchTradeHistory.resume"
    /\ ~lastStep.req.error
    /\ tradeHistory = <<[id |-> 1]>>
    /\ store = <<ExistingRow>> /\ settings = Null /\ Pending = {}
    /\ stats = NoStats /\ Feeds = {}
    /\ botStatus = "error" /\ statusFetch = 0
    /\ events = 0 /\ tables = NoStatsRow

\* C19: whenever the status fetch fails (the invocation throws or returns an
\* error result, the edge function's non-2xx reply included), the status
\* becomes 'error'
C19_StatusFetchFailureIsError ==
    (lastStep.op = "fetchBotStatus.resume" /\ Failed(lastStep))
        => botStatus = "error"

TornDown == ~subscribed.bot_status /\ ~subscribed.trades

\* the queries of function fn that have been sent or answered and not resumed
Fetching(bag, fn) ==
    LET fs == {f \in BagToSet(bag) : f.fn = fn} IN
    IF fs = {} THEN 0
    ELSE BagCardinality([f \in fs |-> CopiesIn(f, bag)])

\* C20: the cleanup releases both subscriptions; a further cleanup changes
\* nothing; and once both are released no status or trade notification
\* changes the status or starts a fetch
C20_TeardownReleases ==
    [][/\ lastStep'.op = "teardown" => TornDown'
       /\ (TornDown /\ lastStep'.op = "teardown")
            => UNCHANGED <<cmdVars, saveVars, feedVars>>
       /\ TornDown
            => /\ TornDown'
               /\ botStatus' = botStatus
               /\ Fetching(feeds', "fetchTradeHistory")
                      <= Fetching(feeds, "fetchTradeHistory")
               /\ Fetching(feeds', "fetchStats") <= Fetching(feeds, "fetchStats")
               /\ lastStep'.op \notin {"bot_status", "trades_change"}]_vars

\* after the cleanup a status broadcast and a trade notification are waiting,
\* and none is delivered
C20_Witness ==
    /\ TornDown
    /\ lastStep.op = "broadcast"
    /\ channel = <<"running">>
    /\ events > 0
    /\ botStatus = "idle"
    /\ Feeds = {}

----------------------------------------------------------------------------
(* Commands that resolve after the cleanup *)

\* the commands of a mounted hook, their resolution, and the cleanup; the
\* buttons that call startBot and stopBot are gone once the hook is unmounted
LateNext ==
    \/ ~TornDown /\ startBot
    \/ ~TornDown /\ stopBot
    \/ \E c \in Outstanding : invokeFail(c)
    \/ \E c \in Outstanding : startBotServe(c)
    \/ \E c \in Outstanding : stopBotServe(c)
    \/ \E c \in Outstanding : startBotResume(c)
    \/ \E c \in Outstanding : stopBotResume(c)
    \/ teardown

LateSpec == Init /\ [][LateNext]_vars

\* C21: a start() or stop() call that resolves after the cleanup is discarded:
\* it changes neither the status nor the loading flag and raises no toast
C21_LateResultDiscarded ==
    [][(TornDown /\ lastStep'.op \in {"startBot.resume", "stopBot.resume"})
          => /\ botStatus' = botStatus
             /\ loading' = loading
             /\ lastStep'.toasts = <<>>]_vars

----------------------------------------------------------------------------
(* Claims about the delivery of notifications *)

\* C22: every trade notification delivered to the hook starts one fetch of the
\* trade history and one fetch of the stats, and every status broadcast
\* delivered sets the status to the status it carries, so that the status is
\* that of the broadcast delivered last
C22_EventsApplied ==
    [][/\ lastStep'.op = "trades_change"
            => /\ Fetching(feeds', "fetchTradeHistory")
                     = Fetching(feeds, "fetchTradeHistory") + 1
               /\ Fetching(feeds', "fetchStats") = Fetching(feeds, "fetchStats") + 1
               /\ events' = events - 1
       /\ lastStep'.op = "bot_status"
            => /\ botStatus' = Head(channel)
               /\ channel' = Tail(channel)]_vars

\* a status broadcast has been applied, and the delivery of a trade
\* notification has just started the two fetches
C22_Witness ==
    /\ lastStep.op = "trades_change"
    /\ botStatus = "error"
    /\ Fetching(feeds, "fetchTradeHistory") = 1
    /\ Fetching(feeds, "fetchStats") = 1
    /\ tables.trade_history # <<>>

----------------------------------------------------------------------------
(* Claims about concurrent saves *)

\* the row holds what query p wrote
Holds(row, p) == \A k \in DOMAIN p.payload : row[k] = p.payload[k]

\* the updates applied to the row of q, answered without an error and not yet
\* resumed, that were built from the same in-memory settings as q: the saves
\* issued concurrently with q
Concurrent(q) ==
    {p \in Pending : /\ p.fn \in SaveFns /\ p.phase = "replied" /\ ~p.error
                     /\ p.id = q.id /\ p.base = q.base}

\* C23: when the table applies the second of two concurrently issued saves of
\* different sections, the first one's update being in place, the row then
\* holds both updates; this for either order of the two writes
C23_BothSectionsPersisted ==
    [][lastStep'.op = "update" =>
          LET q == lastStep'.req IN
          \A p \in Concurrent(q) :
              (p.fn # q.fn /\ Holds(store[q.id], p))
                  => Holds(store'[q.id], p) /\ Holds(store'[q.id], q)]_vars

\* a sell save and a buy save were issued from the same settings; the table
\* applied the sell save first, and the row holds both
C23_Witness ==
    /\ lastStep.op = "update"
    /\ lastStep.req.fn = "saveBuyConditions"
    /\ \E p \in Pending :
          /\ p.fn = "saveSellConditions" /\ p.phase = "replied" /\ ~p.error
          /\ p.base = lastStep.req.base
    /\ store[1].sell_conditions.target_profit = 300
    /\ store[1].buy_conditions.slippage = 20

----------------------------------------------------------------------------
(* Claims about the stop-bot function *)

\* C24: a stop() that reaches the function makes at most one request to the
\* bot's command endpoint, with no retry, and the function reports success to
\* its caller only if that request succeeded
C24_OneRequestAndTrueReport ==
    lastStep.op = "stop-bot.serve"
        => /\ Len(lastStep.bot) <= 1
           /\ (lastStep.reply.kind = "ok" /\ lastStep.bot # <<>>)
                 => lastStep.bot = <<"ok">>

----------------------------------------------------------------------------
(* Claims about validation *)

\* the declared range of field f holds for value v (fractions in tenths)
InRange(f, v) ==
    CASE f = "slippage"                 -> v >= 1 /\ v <= 1000
      [] f = "minimum_liquidity"        -> v >= 0
      [] f = "max_priority_fee"         -> v >= 0
      [] f = "target_profit"            -> v >= 0
      [] f = "stop_loss"                -> v >= 0
      [] f = "max_holding_time"         -> v >= 1
      [] f = "position_size_percentage" -> v >= 1 /\ v <= 1000
      [] f = "max_open_trades"          -> v >= 1
      [] f = "cooldown_period"          -> v >= 0
      [] OTHER                          -> TRUE

\* C25: no section save reaches the persistence call with a field outside its
\* declared range: every update sent to the table has all the fields of its
\* section in range
C25_OnlyValidPersisted ==
    \A q \in Pending :
        q.fn \in ColumnFns =>
            \A k \in DOMAIN q.payload : \A f \in DOMAIN q.payload[k] :
                InRange(f, q.payload[k][f])

----------------------------------------------------------------------------
(* Claims about the forms *)

\* the forms on a table that is empty or holds one row
FormsNext ==
    \/ \E form \in Forms : formMount(form)
    \/ \E form \in Forms : \E p \in FormPatches(form) : formSubmit(form, p)
    \/ \E q \in Pending : tableSelect(q)
    \/ \E q \in Pending : tableInsert(q)
    \/ \E q \in Pending : tableUpdate(q)
    \/ \E q \in Pending : formResume(q)

FormsSpec == SaveInit /\ [][FormsNext]_vars

\* the general form's useBot() holds the document its save created
Created1 ==
    /\ "GeneralSettingsForm" \in DOMAIN forms
    /\ forms["GeneralSettingsForm"].id \in 1..Len(store)
    /\ forms["GeneralSettingsForm"].rpc_url = insertPayload(<<>>).rpc_url

\* C26: the section saves of one session act on one shared settings view:
\* once the general save has created the document, a following buy, sell or
\* risk save sees its id and is not rejected for missing settings
C26_SharedSettingsView ==
    [][(Created1 /\ lastStep'.op \in ColumnFns /\ "form" \in DOMAIN lastStep'.req)
          => lastStep'.ret = "none"]_vars

----------------------------------------------------------------------------
(* Claims about the stats *)

\* the trade history and the stats: their fetches, the bot's writes and the
\* notifications of the trades subscription
StatsNext ==
    \/ \E f \in Feeds : feedSelect(f)
    \/ \E f \in Feeds : feedFail(f)
    \/ \E f \in Feeds : fetchTradeHistoryResume(f)
    \/ \E f \in Feeds : fetchStatsResume(f)
    \/ tradeInserted
    \/ statsRewritten
    \/ onTradesChange
    \/ dropEvent

StatsSpec == MountInit /\ [][StatsNext]_vars

\* C27: a change the bot makes to the stats row alone, with no change to a
\* trade-history row, is followed by a notification (and so by a re-fetch of
\* the stats)
C27_StatsChangeNotified ==
    [][lastStep'.op = "stats" => events' > events]_vars

----------------------------------------------------------------------------
(* Claims about races of saves *)

\* the section column of a section save
Column(fn) == CHOOSE k \in Columns(fn) : TRUE

\* C28: when the table applies a section save that races with an earlier
\* applied save of the same section (both issued from the same in-memory
\* settings), the last write wins: the persisted section is the section of
\* those settings overlaid with the patch of the write applied last, and a
\* field that only the earlier write changed is back at its value in those
\* settings
C28_LastWriteWins ==
    [][(lastStep'.op = "update" /\ lastStep'.req.fn \in ColumnFns) =>
          LET q == lastStep'.req
              k == Column(q.fn) IN
          \A p \in Concurrent(q) :
              p.fn = q.fn =>
                  /\ store'[q.id][k] = Spread(q.base[k], q.patch)
                  /\ \A f \in DOMAIN p.patch \ DOMAIN q.patch :
                        store'[q.id][k][f] = q.base[k][f]]_vars

\* two buy saves raced; the one applied last did not name minimum_liquidity,
\* which the other had set to 5000 and which is back at 2500
C28_Witness ==
    /\ lastStep.op = "update"
    /\ lastStep.req.patch = [slippage |-> 20]
    /\ \E p \in Concurrent(lastStep.req) :
          /\ p.fn = "saveBuyConditions"
          /\ p.patch = [minimum_liquidity |-> 5000, allowed_dexes |-> <<"orca">>]
          /\ p.data.buy_conditions.minimum_liquidity = 5000
    /\ store[1].buy_conditions.minimum_liquidity = 2500
    /\ store[1].buy_conditions.allowed_dexes = <<"jupiter", "raydium">>
    /\ store[1].buy_conditions.slippage = 20

\* C29: once two concurrently issued saves of different sections have both
\* resolved with success, the in-memory settings are the persisted document:
\* when a save resumes with success, no query is outstanding and the row still
\* holds the section that save wrote, the settings equal the row
C29_SettingsMatchStore ==
    (/\ lastStep.op \in SaveResumes
     /\ lastStep.ret = "true"
     /\ Pending = {}
     /\ lastStep.req.data.id \in 1..Len(store)
     /\ \A k \in Columns(lastStep.req.fn) \cap DOMAIN lastStep.req.payload :
           store[lastStep.req.data.id][k] = lastStep.req.data[k])
        => settings = store[settings.id]

====
